---- MODULE Spec2Model ----
(***************************************************************************)
(* Model of the flyer-map dashboard: the unit formatting pipeline of       *)
(* src/src/units.js, the static configuration of src/flyer.config.js and   *)
(* the MQTT/React state handling of the App component                      *)
(* (src/unnamed/part_001), the wind barb of src/src/WindBarb.jsx and the   *)
(* course-over-ground line of src/src/COGLine.jsx.                         *)
(*                                                                         *)
(* Numbers.  A JavaScript number is modelled as an integer count of        *)
(* hundredths (36.5 is 3650).  Table factors are rounded to the digits     *)
(* that keep every product inside 32 bits; products are truncated to a     *)
(* hundredth.  A JavaScript value is a record [t, n] where t is "num",     *)
(* "null", "undefined" or "NaN" and n is the number of hundredths (0 when  *)
(* t is not "num").                                                        *)
(*                                                                         *)
(* Outcomes.  A call that can throw returns a record whose err field is    *)
(* "none" or the class of the exception thrown ("TypeError"); site names   *)
(* the expression that threw.                                              *)
(***************************************************************************)
EXTENDS Integers, Sequences, FiniteSets, TLC

VARIABLES
    probeIn,        \* the update handed to formatUpdate
    probeOut,       \* outcome of formatUpdate(probeIn)
    probeConv,      \* outcome of the "convert if necessary" step for probeIn
    probePc,        \* "ready" before the call, "done" after it
    probeDiag,      \* messages the call has written to the console
    plugIn,         \* mqttOptions.plugIn ("undefined" when the key is absent)
    conn,           \* the MQTT connection: "none", "open" or "ended"
    topics,         \* topics subscribed on the connection
    cleanup,        \* TRUE once the connection effect has returned its cleanup
    client,         \* React state client: "null" or "client"
    clientQueue,    \* values passed to setClient, not yet rendered
    handlers,       \* number of "message" listeners installed on the client
    effects,        \* effects of the last commit that have not run yet
    vesselState,    \* React state vesselState: key -> raw update
    formattedState, \* React state formattedState: key -> formatted record
    vQueue,         \* batches of the queued setVesselState updaters
    fQueue,         \* batches of the queued setFormattedState updaters
    crashed,        \* TRUE once an error has unmounted the component tree
    load,           \* messages delivered plus updates decoded from them
    prevVessel,     \* vesselState before the last render
    prevFormatted,  \* formattedState before the last render
    lastV,          \* batches the last render handed to the raw merge
    lastF,          \* batches the last render handed to the formatted merge
    everRaw,        \* every key that has been present in vesselState
    inputV,         \* content, after the last render, of the object that was
                    \* vesselState before it
    inputF,         \* the same for formattedState
    freshV,         \* TRUE when the last render merged and each raw merge
                    \* returned another object than its receiver
    freshF,         \* the same for the formatted merges
    windSpeed,      \* prop windSpeed of WindBarb, in m/s
    windDirection,  \* prop windDirection of WindBarb
    barbPc,         \* position in WindBarb and SVGWindBarb
    remainingSpeed, \* remainingSpeed of SVGWindBarb, in knots
    yPos,           \* yPos of SVGWindBarb
    svgParts,       \* svgParts of SVGWindBarb
    map,            \* useMap() of COGLine: "null" or "map"
    boatPosition,   \* prop boatPosition of COGLine: "null" or a position
    cog,            \* prop cog of COGLine
    sog,            \* prop sog of COGLine
    mapZoom,        \* what map.getZoom() returns
    zoom,           \* state zoom of COGLine
    projection,     \* state projection of COGLine
    pixelDistance,  \* state pixelDistance of COGLine
    cogPending,     \* values the effect has queued for the three hooks
    effectDue,      \* TRUE when the effect of COGLine is to run
    cogFailed,      \* TRUE once the effect of COGLine has thrown
    cogRun          \* what the last run of the effect did

probeVars == <<probeIn, probeOut, probeConv, probePc, probeDiag>>

appVars ==
    <<plugIn, conn, topics, cleanup, client, clientQueue, handlers, effects,
      vesselState, formattedState, vQueue, fQueue, crashed, load,
      prevVessel, prevFormatted, lastV, lastF, everRaw,
      inputV, inputF, freshV, freshF>>

barbVars ==
    <<windSpeed, windDirection, barbPc, remainingSpeed, yPos, svgParts>>

cogVars ==
    <<map, boatPosition, cog, sog, mapZoom, zoom, projection, pixelDistance,
      cogPending, effectDue, cogFailed, cogRun>>

vars == <<probeVars, appVars, barbVars, cogVars>>

----------------------------------------------------------------------------
(* JavaScript values *)

Num(n) == [t |-> "num", n |-> n]
Null == [t |-> "null", n |-> 0]
Undefined == [t |-> "undefined", n |-> 0]
NaN == [t |-> "NaN", n |-> 0]

\* ToNumber of the ECMAScript specification: null is 0, undefined is NaN.
ToNumber(v) ==
    CASE v.t = "num" -> v
      [] v.t = "null" -> Num(0)
      [] OTHER -> NaN

Abs(n) == IF n < 0 THEN 0 - n ELSE n

\* a * n / b truncated toward zero
MulDiv(n, a, b) == IF n < 0 THEN 0 - ((Abs(n) * a) \div b) ELSE (n * a) \div b

\* Lookup of a property that may be missing: obj[key] is undefined then.
Lookup(obj, key) == IF key \in DOMAIN obj THEN obj[key] ELSE "undefined"

----------------------------------------------------------------------------
(* Static tables of units.js *)

signalKUnits ==
    ("navigation.position" :> "dd.dd") @@
    ("navigation.speedOverGround" :> "meter_per_second") @@
    ("navigation.courseOverGroundTrue" :> "radian") @@
    ("navigation.speedThroughWater" :> "meter_per_second") @@
    ("navigation.headingTrue" :> "radian") @@
    ("environment.depth.belowTransducer" :> "meter") @@
    ("environment.depth.belowKeel" :> "meter") @@
    ("environment.wind.speedApparent" :> "meter_per_second") @@
    ("environment.wind.angleApparent" :> "radian") @@
    ("environment.water.temperature" :> "degree_K") @@
    ("last_update" :> "unix_epoch")

unitGroup ==
    ("navigation.position.latitude" :> "group_latitude") @@
    ("navigation.position.longitude" :> "group_longitude") @@
    ("navigation.speedOverGround" :> "group_speed") @@
    ("navigation.courseOverGroundTrue" :> "group_direction") @@
    ("navigation.speedThroughWater" :> "group_speed") @@
    ("navigation.headingTrue" :> "group_direction") @@
    ("environment.depth.belowTransducer" :> "group_depth") @@
    ("environment.depth.belowKeel" :> "group_depth") @@
    ("environment.wind.speedApparent" :> "group_speed") @@
    ("environment.wind.angleApparent" :> "group_direction") @@
    ("environment.water.temperature" :> "group_temperature") @@
    ("last_update" :> "group_time")

unitLabels ==
    ("meter_per_second" :> " m/s") @@
    ("degree_true" :> "º") @@
    ("meter" :> " m") @@
    ("degree_C" :> "°C") @@
    ("degree_F" :> "°F") @@
    ("degree_K" :> "ºK") @@
    ("knot" :> " kn")

pathLabels ==
    ("navigation.position.latitude" :> "Latitude") @@
    ("navigation.position.longitude" :> "Longitude") @@
    ("navigation.speedOverGround" :> "Speed over ground") @@
    ("navigation.courseOverGroundTrue" :> "Course over ground") @@
    ("navigation.speedThroughWater" :> "Speed through water") @@
    ("navigation.headingTrue" :> "Heading") @@
    ("environment.depth.belowTransducer" :> "Depth below transducer") @@
    ("environment.depth.belowKeel" :> "Depth below keel") @@
    ("environment.wind.speedApparent" :> "Wind speed (apparent)") @@
    ("environment.wind.angleApparent" :> "Wind direction (apparent)") @@
    ("environment.water.temperature" :> "Water temperature") @@
    ("last_update" :> "Last update")

unitSelection ==
    ("group_latitude" :> "dd mm.mm") @@
    ("group_longitude" :> "dd mm.mm") @@
    ("group_direction" :> "degree_true") @@
    ("group_temperature" :> "degree_C") @@
    ("group_depth" :> "meter") @@
    ("group_speed" :> "knot") @@
    ("group_distance" :> "nautical_mile") @@
    ("group_time" :> "unix_epoch")

\* The keys of conversionDict: source unit -> the target units it has an
\* entry for.  The entries themselves are applied by ApplyConversion.
conversionDict ==
    ("degree_K" :> {"degree_C"}) @@
    ("meter" :> {"foot"}) @@
    ("meter_per_second" :> {"knot", "mile_per_hour", "km_per_hour"}) @@
    ("radian" :> {"degree_true"})

\* conversionDict[from][to](x) for an entry that exists; x is a number.
ApplyConversion(from, to, n) ==
    CASE from = "degree_K" /\ to = "degree_C" -> n - 27315
      [] from = "meter" /\ to = "foot" -> MulDiv(n, 3281, 1000)
      [] from = "meter_per_second" /\ to = "knot" -> MulDiv(n, 19438, 10000)
      [] from = "meter_per_second" /\ to = "mile_per_hour" ->
            MulDiv(n, 36000, 16093)
      [] from = "meter_per_second" /\ to = "km_per_hour" -> MulDiv(n, 36, 10)
      [] from = "radian" /\ to = "degree_true" -> MulDiv(n, 57296, 1000)

(* Static configuration of flyer.config.js *)

tableOrder ==
    << "navigation.position.latitude",
       "navigation.position.longitude",
       "navigation.speedOverGround",
       "navigation.courseOverGroundTrue",
       "navigation.speedThroughWater",
       "navigation.headingTrue",
       "navigation.log",
       "environment.depth.belowSurface",
       "environment.depth.belowTransducer",
       "environment.depth.belowKeel",
       "environment.wind.speedOverGround",
       "environment.wind.speedTrue",
       "environment.wind.directionTrue",
       "environment.wind.speedApparent",
       "environment.wind.angleApparent",
       "environment.water.temperature",
       "environment.outside.pressure",
       "environment.outside.temperature",
       "steering.rudderAngle" >>

----------------------------------------------------------------------------
(* Number.prototype.toFixed and String() on hundredths *)

Digit2(k) == IF k < 10 THEN "0" \o ToString(k) ELSE ToString(k)

\* m / q rounded to the nearest integer, ties upward (m >= 0)
RoundDiv(m, q) == (m + (q \div 2)) \div q

Sign(n) == IF n < 0 THEN "-" ELSE ""

\* v.toFixed(digits) for a value that is a number or NaN.  The decimal
\* value is rounded, ties upward in magnitude; a double that lies just
\* below a decimal tie (273.15) is rounded downward by JavaScript.
ToFixed(v, digits) ==
    IF v.t = "NaN" THEN "NaN"
    ELSE CASE digits = 0 -> Sign(v.n) \o ToString(RoundDiv(Abs(v.n), 100))
           [] digits = 1 ->
                LET tenths == RoundDiv(Abs(v.n), 10)
                IN  Sign(v.n) \o ToString(tenths \div 10) \o "."
                        \o ToString(tenths % 10)
           [] digits = 4 ->
                Sign(v.n) \o ToString(Abs(v.n) \div 100) \o "."
                    \o Digit2(Abs(v.n) % 100) \o "00"

\* String(v)
JsString(v) ==
    CASE v.t = "null" -> "null"
      [] v.t = "undefined" -> "undefined"
      [] v.t = "NaN" -> "NaN"
      [] OTHER ->
            LET whole == ToString(Abs(v.n) \div 100)
                frac == Abs(v.n) % 100
            IN  Sign(v.n) \o whole \o
                    (IF frac = 0 THEN ""
                     ELSE IF frac % 10 = 0 THEN "." \o ToString(frac \div 10)
                     ELSE "." \o Digit2(frac))

\* dayjs(v).format("YYYY-MM-DD HH:mm:ss").  Epoch values are small tick
\* counts; the calendar string of tick n is written "@n".  dayjs(undefined)
\* is the current time, dayjs(null) and dayjs(NaN) are invalid dates.
DayjsFormat(v) ==
    CASE v.t = "num" -> "@" \o ToString(v.n)
      [] v.t = "undefined" -> "@now"
      [] OTHER -> "Invalid Date"

----------------------------------------------------------------------------
(* formatValue, formatLatLon, formatUpdate *)
(* A local of the source that is read several times is the parameter of  *)
(* a helper operator, so that it is computed once.                        *)

Ok(s) == [err |-> "none", site |-> "", s |-> s]
Throw(site) == [err |-> "TypeError", site |-> site, s |-> ""]

\* conversionDict[unit][selected_unit](value) when the entry exists
Converted(value, unit, selected_unit, x) ==
    [err |-> "none", site |-> "",
     v |-> IF x.t = "NaN" THEN NaN
           ELSE Num(ApplyConversion(unit, selected_unit, x.n))]

\* Converts whatever the units are: the shortcut for equal units is missing.
ConvertedValueAlways(value, unit, selected_unit) ==
    IF unit \notin DOMAIN conversionDict
       \/ selected_unit \notin conversionDict[unit]
    THEN [err |-> "TypeError", site |-> "conversion", v |-> Undefined]
    ELSE Converted(value, unit, selected_unit, ToNumber(value))

\* "Convert if necessary": the value handed to the precision switch.
\* conversionDict[unit] of a missing unit is undefined, and reading a
\* property of it throws; a missing entry is undefined, and calling it throws.
ConvertedValue(value, unit, selected_unit) ==
    IF unit = selected_unit THEN [err |-> "none", site |-> "", v |-> value]
    ELSE IF unit \notin DOMAIN conversionDict
            \/ selected_unit \notin conversionDict[unit]
    THEN [err |-> "TypeError", site |-> "conversion", v |-> Undefined]
    ELSE Converted(value, unit, selected_unit, ToNumber(value))

\* x.toFixed(digits) where x may be null or undefined (a TypeError then)
CallToFixed(v, digits) ==
    IF v.t \in {"null", "undefined"} THEN Throw("toFixed")
    ELSE Ok(ToFixed(v, digits))

\* The number of digits the switch on selected_unit asks toFixed for
FixedDigits(selected_unit) ==
    CASE selected_unit \in {"degree_C", "degree_F", "degree_K"} -> 1
      [] selected_unit = "degree_true" -> 0
      [] selected_unit \in {"meter_per_second", "knot"} -> 1
      [] selected_unit = "meter" -> 0
      [] selected_unit = "nautical_mile" -> 1

\* The switch on selected_unit
Fval(convertedValue, selected_unit) ==
    IF selected_unit \in {"degree_C", "degree_F", "degree_K", "degree_true",
                          "meter_per_second", "knot", "meter",
                          "nautical_mile"}
    THEN CallToFixed(convertedValue, FixedDigits(selected_unit))
    ELSE IF selected_unit = "unix_epoch" THEN Ok(DayjsFormat(convertedValue))
    ELSE Ok(JsString(convertedValue))

\* fval + unit_label, where unit_label is unitLabels[selected_unit] || ""
AttachLabel(fval, selected_unit) ==
    IF fval.err # "none" THEN fval
    ELSE Ok(fval.s \o (IF selected_unit \in DOMAIN unitLabels
                       THEN unitLabels[selected_unit] ELSE ""))

\* formatValue after the conversion step
FormatConverted(conv, selected_unit) ==
    IF conv.err # "none" THEN Throw(conv.site)
    ELSE AttachLabel(Fval(conv.v, selected_unit), selected_unit)

formatValue(value, unit_group, unit) ==
    FormatConverted(
        ConvertedValue(value, unit, Lookup(unitSelection, unit_group)),
        Lookup(unitSelection, unit_group))

\* console.assert(unit === "dd.dd", ...) of formatLatLon: TRUE when the
\* assertion holds; a failed assertion is logged and execution continues.
LatLonAssertion(unit) == unit = "dd.dd"

\* What that console.assert writes to the console
LatLonDiagnostics(unit) ==
    IF LatLonAssertion(unit) THEN {} ELSE {"Expected decimal degrees."}

\* Math.floor(Math.abs(value)) for value coerced to the number x
Degrees(x) == IF x.t = "NaN" THEN NaN ELSE Num((Abs(x.n) \div 100) * 100)

\* (value - degrees) * 60.0 for value coerced to the number x
Minutes(x, degrees) ==
    IF x.t = "NaN" THEN NaN ELSE Num((x.n - degrees.n) * 60)

\* degrees.toFixed(0) + "° " + minutes.toFixed(1) + "'"
DegMinString(x, degrees) ==
    ToFixed(degrees, 0) \o "° " \o ToFixed(Minutes(x, degrees), 1) \o "'"

\* value.toFixed(4) + "°"
DecimalDegrees(f) == IF f.err # "none" THEN f ELSE Ok(f.s \o "°")

\* fval of formatLatLon; it stays undefined for any other selected unit
LatLonFval(value, selected_unit, x) ==
    IF selected_unit = "dd.dd" THEN DecimalDegrees(CallToFixed(value, 4))
    ELSE IF selected_unit = "dd mm.mm" THEN Ok(DegMinString(x, Degrees(x)))
    ELSE Ok("undefined")

\* value >= 0 for value coerced to the number x; false for NaN
GeZero(x) == x.t = "num" /\ x.n >= 0

Hemisphere(unit_group, x) ==
    IF unit_group = "group_latitude"
    THEN (IF GeZero(x) THEN "N" ELSE "S")
    ELSE (IF GeZero(x) THEN "E" ELSE "W")

\* fval + hemisphere
AttachHemisphere(fval, hemisphere) ==
    IF fval.err # "none" THEN fval ELSE Ok(fval.s \o hemisphere)

formatLatLon(value, unit_group, unit) ==
    AttachHemisphere(
        LatLonFval(value, Lookup(unitSelection, unit_group), ToNumber(value)),
        Hemisphere(unit_group, ToNumber(value)))

NoRecord == [key |-> "", label |-> "", value |-> "", last_update |-> ""]

\* labeledVal of formatUpdate
LabeledVal(update, unit_group) ==
    IF unit_group \in {"group_latitude", "group_longitude"}
    THEN formatLatLon(update.value, unit_group, update.unit)
    ELSE formatValue(update.value, unit_group, update.unit)

\* The record formatUpdate returns, or the exception of one of its calls
FormattedRecord(update, labeledVal, stamp) ==
    IF labeledVal.err # "none"
    THEN [err |-> labeledVal.err, site |-> labeledVal.site, rec |-> NoRecord]
    ELSE IF stamp.err # "none"
    THEN [err |-> stamp.err, site |-> stamp.site, rec |-> NoRecord]
    ELSE [err |-> "none", site |-> "",
          rec |-> [key |-> update.key,
                   label |-> Lookup(pathLabels, update.key),
                   value |-> labeledVal.s,
                   last_update |-> stamp.s]]

formatUpdate(update) ==
    FormattedRecord(
        update,
        LabeledVal(update, Lookup(unitGroup, update.key)),
        formatValue(update.last_update, "group_time", "unix_epoch"))

----------------------------------------------------------------------------
(* Inputs of the formatter taken on its own *)

ProbeKeys ==
    DOMAIN unitGroup \cup {"navigation.position", "navigation.log"}

ProbeValues ==
    { Num(3650), Num(-3650), Num(0), Num(500), Num(-25), Num(1200),
      Num(28315), Num(314), Null, Undefined }

ProbeUnits ==
    { "dd.dd", "meter_per_second", "radian", "meter", "degree_K",
      "unix_epoch", "knot", "undefined" }

ProbeStamps == { Num(17), Null }

ProbeInputs ==
    [key : ProbeKeys, value : ProbeValues, unit : ProbeUnits,
     last_update : ProbeStamps]

NoOutcome == [err |-> "none", site |-> "", rec |-> NoRecord]
NoConv == [err |-> "none", site |-> "", v |-> Undefined]

----------------------------------------------------------------------------
(* Bounds *)

\* The load of a session: the messages delivered plus the updates decoded
\* from them
MaxLoad == 5

\* The largest wind speed handed to WindBarb, in tenths of a m/s
MaxWindSpeed == 600

\* The parts SVGWindBarb may push before the model stops following it; no
\* speed up to MaxWindSpeed needs as many
MaxParts == 8

----------------------------------------------------------------------------
(* State merge: VesselState.mergeUpdates and FormattedState.mergeUpdates *)

EmptySnapshot == [k \in {} |-> NoRecord]

\* snapshot[key] = entry on a copy of snapshot
Put(snapshot, key, entry) ==
    [k \in DOMAIN snapshot \cup {key} |->
        IF k = key THEN entry ELSE snapshot[k]]

RECURSIVE VesselMergeFirstWins(_, _)
\* Writes the updates in reverse array order: the first update of a key wins.
VesselMergeFirstWins(snapshot, updateDicts) ==
    IF updateDicts = << >> THEN snapshot
    ELSE Put(VesselMergeFirstWins(snapshot, Tail(updateDicts)),
             Head(updateDicts).key, Head(updateDicts))

RECURSIVE VesselMergeUpdates(_, _)
\* A copy of the snapshot with every update written at its key, in array
\* order.
VesselMergeUpdates(snapshot, updateDicts) ==
    IF updateDicts = << >> THEN snapshot
    ELSE VesselMergeUpdates(
            Put(snapshot, Head(updateDicts).key, Head(updateDicts)),
            Tail(updateDicts))

RECURSIVE FormattedMergeUpdates(_, _)
\* One turn of the loop for the formatted record (or exception) f of the
\* first update: an exception of formatUpdate leaves the loop and the call.
MergeFormatted(snapshot, updateDicts, f) ==
    IF f.err # "none" THEN [err |-> f.err, state |-> snapshot]
    ELSE FormattedMergeUpdates(Put(snapshot, Head(updateDicts).key, f.rec),
                               Tail(updateDicts))

\* The same loop with each update run through formatUpdate first.
FormattedMergeUpdates(snapshot, updateDicts) ==
    IF updateDicts = << >> THEN [err |-> "none", state |-> snapshot]
    ELSE MergeFormatted(snapshot, updateDicts,
                        formatUpdate(Head(updateDicts)))

\* The merge writes the updates into its receiver instead of a copy.
ReceiverAfterMergeInPlace(snapshot, updateDicts) ==
    VesselMergeUpdates(snapshot, updateDicts)

\* Content of the receiver of mergeUpdates after the call: the updates are
\* written into a shallow copy, the receiver keeps its keys and records.
ReceiverAfterMerge(snapshot, updateDicts) == snapshot

\* The object mergeUpdates returns: "copy", the shallow copy it built, and
\* not "receiver", the snapshot it was called on.
MergeResultObject == "copy"

\* The object that was a state before a render, after the updaters of the
\* queue have run: only the first updater is handed that object.
ReceiverAfter(snapshot, queue) ==
    IF queue = << >> THEN snapshot
    ELSE ReceiverAfterMerge(snapshot, Head(queue))

\* The same for FormattedState, whose mergeUpdates writes formatted records
\* into its copy.
FormattedReceiverAfter(snapshot, queue) ==
    IF queue = << >> THEN snapshot
    ELSE ReceiverAfterMerge(snapshot, Head(queue))

\* No wind barb is being drawn.
BarbIdle ==
    /\ windSpeed = Null
    /\ windDirection = Null
    /\ barbPc = "idle"
    /\ remainingSpeed = Null
    /\ yPos = 0
    /\ svgParts = << >>

\* No setState call of the effect is waiting for a render.
\* What a setState call has queued for a hook: nothing, or a value
Keep == [set |-> FALSE, v |-> Null]

Set(value) == [set |-> TRUE, v |-> value]

NoPending == [projection |-> Keep, zoom |-> Keep, pixelDistance |-> Keep]

NoRun == [ran |-> FALSE, known |-> FALSE, stored |-> FALSE, failed |-> FALSE]

\* No COGLine is mounted.
CogIdle ==
    /\ map = "null"
    /\ boatPosition = "null"
    /\ cog = Null
    /\ sog = Null
    /\ mapZoom = Undefined
    /\ zoom = Null
    /\ projection = "null"
    /\ pixelDistance = Null
    /\ cogPending = NoPending
    /\ effectDue = FALSE
    /\ cogFailed = FALSE
    /\ cogRun = NoRun

----------------------------------------------------------------------------
(* The App component *)

PlugIns == {"signalk-mqtt-gw", "signalk-mqtt-push", "undefined"}

\* The keys of mqttOptions in the configuration as shipped
mqttOptionsKeys ==
    {"brokerUrl", "clientId", "username", "password", "vesselId"}

\* mqttOptions.plugIn of the configuration as shipped
ShippedPlugIn ==
    IF "plugIn" \in mqttOptionsKeys THEN "configured" ELSE "undefined"

Update(k, v, u, t) == [key |-> k, value |-> v, unit |-> u, last_update |-> t]

\* The updates a decoded message is made of
BatchUpdates ==
    { Update("navigation.position.latitude", Num(3650), "dd.dd", Num(1)),
      Update("navigation.speedOverGround", Num(500), "meter_per_second",
             Num(1)),
      Update("navigation.speedOverGround", Num(700), "meter_per_second",
             Num(2)),
      Update("environment.depth.belowKeel", Null, "meter", Num(1)),
      Update("environment.water.temperature", Null, "degree_K", Num(2)),
      Update("navigation.log", Num(1200), "undefined", Num(1)) }

\* getUpdateDicts(JSON.parse(message)): zero, one or many updates, at most
\* maxLen of them
Batches(maxLen) == UNION { [1..n -> BatchUpdates] : n \in 0..maxLen }

\* The updater merges into a new VesselState() instead of the state v it is
\* given.
ApplyVesselFresh(v, queue) ==
    IF queue = << >> THEN v
    ELSE VesselMergeUpdates(EmptySnapshot, queue[Len(queue)])

RECURSIVE ApplyVessel(_, _)
\* The queued updaters (v) => new VesselState(v.mergeUpdates(updateDicts))
ApplyVessel(v, queue) ==
    IF queue = << >> THEN v
    ELSE ApplyVessel(VesselMergeUpdates(v, Head(queue)), Tail(queue))

RECURSIVE ApplyFormatted(_, _)
\* The updaters after one whose merge returned m
ApplyRest(m, queue) ==
    IF m.err # "none" THEN m ELSE ApplyFormatted(m.state, queue)

\* The queued updaters (f) => new FormattedState(f.mergeUpdates(updateDicts))
ApplyFormatted(f, queue) ==
    IF queue = << >> THEN [err |-> "none", state |-> f]
    ELSE ApplyRest(FormattedMergeUpdates(f, Head(queue)), Tail(queue))

\* The formatter is not being called.
ProbeIdle ==
    /\ probeIn = CHOOSE u \in ProbeInputs : TRUE
    /\ probeOut = NoOutcome
    /\ probeConv = NoConv
    /\ probePc = "idle"
    /\ probeDiag = {}

\* The state hooks of App at their initial values, nothing connected
AppConstructed ==
    /\ conn = "none"
    /\ topics = {}
    /\ cleanup = FALSE
    /\ client = "null"
    /\ clientQueue = << >>
    /\ handlers = 0
    /\ vesselState = EmptySnapshot
    /\ formattedState = EmptySnapshot
    /\ vQueue = << >>
    /\ fQueue = << >>
    /\ crashed = FALSE
    /\ load = 0
    /\ prevVessel = EmptySnapshot
    /\ prevFormatted = EmptySnapshot
    /\ lastV = << >>
    /\ lastF = << >>
    /\ everRaw = {}
    /\ inputV = EmptySnapshot
    /\ inputF = EmptySnapshot
    /\ freshV = FALSE
    /\ freshF = FALSE

\* App is not mounted.
AppIdle ==
    /\ plugIn = "undefined"
    /\ effects = << >>
    /\ AppConstructed

\* App after its first render: both effects are still to run.
Init ==
    /\ ProbeIdle
    /\ plugIn \in PlugIns
    /\ effects = <<"connect", "message">>
    /\ AppConstructed
    /\ BarbIdle
    /\ CogIdle

\* The connection effect with the first branch as the default: any plug-in
\* other than "signalk-mqtt-push" subscribes to "signalk/delta".
ConnectEffectDefaultDelta ==
    /\ effects # << >> /\ Head(effects) = "connect"
    /\ effects' = Tail(effects)
    /\ conn' = "open"
    /\ clientQueue' = Append(clientQueue, "client")
    /\ IF plugIn = "signalk-mqtt-push"
       THEN topics' = { "signalk/+/" \o key : key \in DOMAIN signalKUnits }
       ELSE topics' = {"signalk/delta"}
    /\ cleanup' = TRUE
    /\ crashed' = crashed
    /\ UNCHANGED <<probeVars, barbVars, cogVars,
                   plugIn, client, handlers, vesselState,
                   formattedState, vQueue, fQueue, load, prevVessel,
                   prevFormatted, lastV, lastF, everRaw,
                   inputV, inputF, freshV, freshF>>

\* The first useEffect: connect, setClient, subscribe by plug-in, return the
\* cleanup; an unknown plug-in throws after the connection is opened.
ConnectEffect ==
    /\ effects # << >> /\ Head(effects) = "connect"
    /\ effects' = Tail(effects)
    /\ conn' = "open"
    /\ clientQueue' = Append(clientQueue, "client")
    /\ IF plugIn = "signalk-mqtt-gw"
       THEN topics' = {"signalk/delta"} /\ cleanup' = TRUE
                /\ crashed' = crashed
       ELSE IF plugIn = "signalk-mqtt-push"
       THEN topics' = { "signalk/+/" \o key : key \in DOMAIN signalKUnits }
                /\ cleanup' = TRUE /\ crashed' = crashed
       ELSE topics' = topics /\ cleanup' = cleanup /\ crashed' = TRUE
    /\ UNCHANGED <<probeVars, barbVars, cogVars,
                   plugIn, client, handlers, vesselState,
                   formattedState, vQueue, fQueue, load, prevVessel,
                   prevFormatted, lastV, lastF, everRaw,
                   inputV, inputF, freshV, freshF>>

\* The second useEffect: with a client, install the message handler.
MessageEffect ==
    /\ effects # << >> /\ Head(effects) = "message"
    /\ effects' = Tail(effects)
    /\ handlers' = IF client # "null" THEN handlers + 1 ELSE handlers
    /\ UNCHANGED <<probeVars, barbVars, cogVars,
                   plugIn, conn, topics, cleanup, client,
                   clientQueue, vesselState, formattedState, vQueue, fQueue,
                   crashed, load, prevVessel, prevFormatted, lastV,
                   lastF, everRaw, inputV, inputF, freshV, freshF>>

\* The handler hands the formatted merge only the updates whose path has a
\* unit group.
OnMessageFiltered(queues, updateDicts) ==
    [v |-> Append(queues.v, updateDicts),
     f |-> Append(queues.f,
                  SelectSeq(updateDicts,
                            LAMBDA u : u.key \in DOMAIN unitGroup))]

\* The handler calls setFormattedState only.
OnMessageFormattedOnly(queues, updateDicts) ==
    [v |-> queues.v, f |-> Append(queues.f, updateDicts)]

\* One run of the handler of client.on("message", ...) on the updater
\* queues of the two hooks: both setState calls get an updater closed over
\* the same updateDicts.
OnMessage(queues, updateDicts) ==
    [v |-> Append(queues.v, updateDicts),
     f |-> Append(queues.f, updateDicts)]

RECURSIVE Emit(_, _, _)
\* client.emit("message", ...): every installed listener runs, one after
\* the other; without a listener nothing runs.
Emit(queues, updateDicts, listeners) ==
    IF listeners = 0 THEN queues
    ELSE Emit(OnMessage(queues, updateDicts), updateDicts, listeners - 1)

\* The updater queues after the listeners have run
Enqueue(queues) == vQueue' = queues.v /\ fQueue' = queues.f

\* A message arrives on the open connection and every installed listener
\* runs; without a listener the message is dropped.
MessageArrives ==
    /\ conn = "open" /\ topics # {} /\ ~crashed
    /\ load < MaxLoad
    /\ \E updateDicts \in Batches(MaxLoad - load - 1) :
        /\ load' = load + 1 + Len(updateDicts)
        /\ Enqueue(Emit([v |-> vQueue, f |-> fQueue], updateDicts,
                        handlers))
    /\ UNCHANGED <<probeVars, barbVars, cogVars,
                   plugIn, conn, topics, cleanup, client,
                   clientQueue, handlers, effects, vesselState,
                   formattedState, crashed, prevVessel, prevFormatted,
                   lastV, lastF, everRaw, inputV, inputF, freshV, freshF>>

\* The handler effect is scheduled after every render.
EffectsEveryRender(newClient) == <<"message">>

\* The effects a commit schedules: the handler effect has [client] as its
\* dependencies and runs again only when client changed; the connection
\* effect has [] and never runs again.
EffectsAfterRender(newClient) ==
    IF newClient # client THEN <<"message">> ELSE << >>

\* The commit of a render that computed newClient, newV and newF.  An
\* updater that threw (newF.err) fails the render: nothing is committed and
\* the tree is unmounted, which runs the cleanup of the connection effect.
Commit(newClient, newV, newF) ==
    IF newF.err = "none"
    THEN /\ client' = newClient
         /\ vesselState' = newV
         /\ formattedState' = newF.state
         /\ everRaw' = everRaw \cup DOMAIN newV
         /\ effects' = EffectsAfterRender(newClient)
         /\ UNCHANGED <<crashed, conn>>
    ELSE /\ crashed' = TRUE
         /\ conn' = IF cleanup THEN "ended" ELSE conn
         /\ UNCHANGED <<client, vesselState, formattedState, everRaw,
                        effects>>

\* A render of App: the queued updaters of the three state hooks are
\* applied and the result committed in one step; the message effect is
\* scheduled when client changed.
Render ==
    /\ ~crashed /\ effects = << >>
    /\ prevVessel' = vesselState
    /\ prevFormatted' = formattedState
    /\ lastV' = vQueue
    /\ lastF' = fQueue
    /\ clientQueue' = << >>
    /\ vQueue' = << >>
    /\ fQueue' = << >>
    /\ inputV' = ReceiverAfter(vesselState, vQueue)
    /\ inputF' = FormattedReceiverAfter(formattedState, fQueue)
    /\ freshV' = (vQueue # << >> /\ MergeResultObject # "receiver")
    /\ freshF' = (fQueue # << >> /\ MergeResultObject # "receiver")
    /\ Commit(IF clientQueue = << >> THEN client
              ELSE clientQueue[Len(clientQueue)],
              ApplyVessel(vesselState, vQueue),
              ApplyFormatted(formattedState, fQueue))
    /\ UNCHANGED <<probeVars, barbVars, cogVars,
                   plugIn, topics, cleanup, handlers, load>>

Next ==
    \/ ConnectEffect
    \/ MessageEffect
    \/ MessageArrives
    \/ Render

Spec == Init /\ [][Next]_vars


----------------------------------------------------------------------------
(* The formatter applied to single updates *)

InitFormat ==
    /\ probeIn \in ProbeInputs
    /\ probeOut = NoOutcome
    /\ probeConv = NoConv
    /\ probePc = "ready"
    /\ probeDiag = {}
    /\ AppIdle
    /\ BarbIdle
    /\ CogIdle

\* formatUpdate(probeIn); probeConv records the conversion step of the
\* primary value when it goes through formatValue.
CallFormatUpdate ==
    /\ probePc = "ready"
    /\ probeOut' = formatUpdate(probeIn)
    /\ probeConv' =
        IF Lookup(unitGroup, probeIn.key)
              \in {"group_latitude", "group_longitude"}
        THEN NoConv
        ELSE ConvertedValue(
                probeIn.value, probeIn.unit,
                Lookup(unitSelection, Lookup(unitGroup, probeIn.key)))
    /\ probePc' = "done"
    /\ probeDiag' =
        IF Lookup(unitGroup, probeIn.key)
              \in {"group_latitude", "group_longitude"}
        THEN LatLonDiagnostics(probeIn.unit)
        ELSE {}
    /\ UNCHANGED <<probeIn, appVars, barbVars, cogVars>>

NextFormat == CallFormatUpdate

SpecFormat == InitFormat /\ [][NextFormat]_vars

----------------------------------------------------------------------------
(* The wind barb: WindBarb and SVGWindBarb of src/src/WindBarb.jsx.         *)
(* Speeds are hundredths of a knot or of a m/s.  Huge stands for a finite   *)
(* double of 2^60 or more: two neighbouring doubles of that size are 256 or *)
(* more apart, so subtracting 50 or 10 from it gives the same double back.  *)

SPACE == 16
FULLBARB == 14
ShaftTop == 20

Huge == [t |-> "big", n |-> 0]

\* k knots in hundredths of a knot
Knots(k) == 100 * k

\* v >= k knots in JavaScript: false for NaN
AtLeast(v, k) == v.t = "big" \/ (v.t = "num" /\ v.n >= Knots(k))

\* v < k knots
Below(v, k) == v.t = "num" /\ v.n < Knots(k)

\* v -= k knots in double arithmetic
Minus(v, k) == IF v.t = "big" THEN v ELSE Num(v.n - Knots(k))

\* The speed is taken as a number of knots as it is.
ToKnotsUnconverted(speed) ==
    IF speed.t = "big" THEN Huge ELSE ToNumber(speed)

\* conversionDict["meter_per_second"]["knot"](props.windSpeed)
ToKnots(speed) ==
    IF speed.t = "big" THEN Huge
    ELSE IF ToNumber(speed).t = "NaN" THEN NaN
    ELSE Num(ApplyConversion("meter_per_second", "knot",
                             ToNumber(speed).n))

\* A JavaScript value that && takes as true
Truthy(v) == v.t = "big" \/ (v.t = "num" /\ v.n # 0)

\* The strings pushed on svgParts: the shaft, a closed path for a pennant
\* and a line for a barb, each at the y it is drawn at
Shaft == [shape |-> "shaft", y |-> ShaftTop, length |-> 0]

addPennant(parts, y) ==
    Append(parts, [shape |-> "pennant", y |-> y, length |-> FULLBARB])

addBarb(parts, y, length) ==
    Append(parts, [shape |-> "barb", y |-> y, length |-> length])

\* Wind speeds handed to WindBarb: tenths of a m/s up to the bound, a huge
\* one, and the absent ones
WindSpeeds ==
    { Num(10 * k) : k \in 0..MaxWindSpeed } \cup {Huge, Null, Undefined}

WindDirections == {Null, Num(0), Num(157)}

InitBarb ==
    /\ windSpeed \in WindSpeeds
    /\ windDirection \in WindDirections
    /\ barbPc = "render"
    /\ remainingSpeed = Null
    /\ yPos = 0
    /\ svgParts = << >>
    /\ ProbeIdle
    /\ AppIdle
    /\ CogIdle

\* WindBarb: SVGWindBarb is rendered for a truthy windSpeed and a
\* windDirection that is neither null nor undefined.
WindBarb ==
    /\ barbPc = "render"
    /\ barbPc' = IF Truthy(windSpeed)
                    /\ windDirection.t \notin {"null", "undefined"}
                 THEN "start" ELSE "none"
    /\ UNCHANGED <<windSpeed, windDirection, remainingSpeed, yPos, svgParts,
                   probeVars, appVars, cogVars>>

\* yPos after the test for a speed between 5 and 10 knots
FirstY(speed) ==
    IF AtLeast(speed, 5) /\ Below(speed, 10)
    THEN ShaftTop + SPACE \div 2 ELSE ShaftTop

\* SVGWindBarb up to its first loop
SVGWindBarb ==
    /\ barbPc = "start"
    /\ remainingSpeed' = ToKnots(windSpeed)
    /\ svgParts' = <<Shaft>>
    /\ yPos' = FirstY(ToKnots(windSpeed))
    /\ barbPc' = "pennants"
    /\ UNCHANGED <<windSpeed, windDirection, probeVars, appVars, cogVars>>

\* One turn of while (remainingSpeed >= 50)
PennantTurn ==
    /\ barbPc = "pennants"
    /\ AtLeast(remainingSpeed, 50)
    /\ Len(svgParts) < MaxParts
    /\ svgParts' = addPennant(svgParts, yPos)
    /\ yPos' = yPos + SPACE
    /\ remainingSpeed' = Minus(remainingSpeed, 50)
    /\ UNCHANGED <<windSpeed, windDirection, barbPc, probeVars, appVars,
                   cogVars>>

\* The first loop ends.
PennantsEnd ==
    /\ barbPc = "pennants"
    /\ ~AtLeast(remainingSpeed, 50)
    /\ barbPc' = "barbs"
    /\ UNCHANGED <<windSpeed, windDirection, remainingSpeed, yPos, svgParts,
                   probeVars, appVars, cogVars>>

\* One turn of while (remainingSpeed >= 10)
BarbTurn ==
    /\ barbPc = "barbs"
    /\ AtLeast(remainingSpeed, 10)
    /\ Len(svgParts) < MaxParts
    /\ svgParts' = addBarb(svgParts, yPos, FULLBARB)
    /\ yPos' = yPos + SPACE
    /\ remainingSpeed' = Minus(remainingSpeed, 10)
    /\ UNCHANGED <<windSpeed, windDirection, barbPc, probeVars, appVars,
                   cogVars>>

\* The second loop ends; a half barb for 5 knots or more, and the return.
BarbsEnd ==
    /\ barbPc = "barbs"
    /\ ~AtLeast(remainingSpeed, 10)
    /\ IF AtLeast(remainingSpeed, 5)
       THEN /\ svgParts' = addBarb(svgParts, yPos, FULLBARB \div 2)
            /\ yPos' = yPos + SPACE
       ELSE UNCHANGED <<svgParts, yPos>>
    /\ barbPc' = "done"
    /\ UNCHANGED <<windSpeed, windDirection, remainingSpeed, probeVars,
                   appVars, cogVars>>

NextBarb ==
    \/ WindBarb
    \/ SVGWindBarb
    \/ PennantTurn
    \/ PennantsEnd
    \/ BarbTurn
    \/ BarbsEnd

SpecBarb == InitBarb /\ [][NextBarb]_vars

----------------------------------------------------------------------------
(* The course-over-ground line: COGLine of src/src/COGLine.jsx.  The map   *)
(* instance is "null" until useMap() has one.  latLngAtBearing and          *)
(* getPixelDistance are kept as the tuples of their arguments.              *)

DefaultDuration == 600

Positions == {"p1", "p2"}

\* v != null in JavaScript: neither null nor undefined
NotNullish(v) == v.t \notin {"null", "undefined"}

RECURSIVE Pow2(_)
\* Math.pow(2, k) for a whole k >= 0
Pow2(k) == IF k = 0 THEN 1 ELSE 2 * Pow2(k - 1)

\* scale of the effect: null without a zoom, else Math.pow(2, zoom)
Scale(z) == IF NotNullish(z) THEN Num(100 * Pow2(z.n \div 100)) ELSE Null

\* latLngAtBearing(boatPosition, distance_meters, cog)
latLngAtBearing(position, distance_meters, bearing) ==
    <<position, distance_meters, bearing>>

\* getPixelDistance(scale, projection, boatPosition, endBoatPosition)
getPixelDistance(scale, proj, position, endPosition) ==
    <<scale, proj, position, endPosition>>

CogMaps == {"null", "map"}
CogPositions == {"null"} \cup Positions
CogCourses == {Null, Undefined, Num(0), Num(157)}
CogSpeeds == {Null, Undefined, Num(0), Num(500)}
MapZooms == {Undefined, Num(1000), Num(1100)}

\* COGLine after its first render with some props: the three state hooks
\* are null and the effect is still to run.
InitCog ==
    /\ map \in CogMaps
    /\ boatPosition \in CogPositions
    /\ cog \in CogCourses
    /\ sog \in CogSpeeds
    /\ mapZoom \in MapZooms
    /\ zoom = Null
    /\ projection = "null"
    /\ pixelDistance = Null
    /\ cogPending = NoPending
    /\ effectDue = TRUE
    /\ cogFailed = FALSE
    /\ cogRun = NoRun
    /\ ProbeIdle
    /\ AppIdle
    /\ BarbIdle

\* The test of the if statement of the effect
HaveAllData ==
    /\ map # "null"
    /\ boatPosition # "null"
    /\ NotNullish(cog)
    /\ NotNullish(sog)
    /\ NotNullish(zoom)
    /\ NotNullish(Scale(zoom))

\* The value handed to setPixelDistance
NewPixelDistance ==
    getPixelDistance(
        Scale(zoom), projection, boatPosition,
        latLngAtBearing(boatPosition, sog.n * DefaultDuration, cog))

\* The body of the effect: map.getProjection() and map.getZoom() come first
\* and throw a TypeError without a map; then the guarded computation.
CogEffectBody ==
    IF map = "null"
    THEN cogFailed' = TRUE /\ cogPending' = cogPending
    ELSE /\ cogFailed' = FALSE
         /\ cogPending' =
                [projection |-> Set("projection"),
                 zoom |-> Set(mapZoom),
                 pixelDistance |->
                    IF HaveAllData THEN Set(NewPixelDistance) ELSE Keep]

\* The values of the first five in this run are all known.
AllKnown ==
    /\ map # "null"
    /\ boatPosition # "null"
    /\ cog.t = "num"
    /\ sog.t = "num"
    /\ zoom.t = "num"

\* One run of the effect
CogEffect ==
    /\ effectDue /\ ~cogFailed
    /\ effectDue' = FALSE
    /\ CogEffectBody
    /\ cogRun' = [ran |-> TRUE,
                  known |-> AllKnown,
                  stored |-> cogPending'.pixelDistance.set,
                  failed |-> cogFailed']
    /\ UNCHANGED <<map, boatPosition, cog, sog, mapZoom, zoom, projection,
                   pixelDistance, probeVars, appVars, barbVars>>

\* The state a render commits for a hook with a queued value
Committed(current, queued) == IF queued.set THEN queued.v ELSE current

\* A render of COGLine with the props and the map of that moment: the
\* queued values are committed, and the effect is due when one of its
\* dependencies is another value than in the render before.
CogRender ==
    /\ ~cogFailed /\ ~effectDue
    /\ \E newMap \in (IF map = "null" THEN CogMaps ELSE {map}),
          newPosition \in CogPositions,
          newCog \in CogCourses,
          newSog \in CogSpeeds :
        /\ map' = newMap
        /\ boatPosition' = newPosition
        /\ cog' = newCog
        /\ sog' = newSog
    /\ projection' = Committed(projection, cogPending.projection)
    /\ zoom' = Committed(zoom, cogPending.zoom)
    /\ pixelDistance' = Committed(pixelDistance, cogPending.pixelDistance)
    /\ cogPending' = NoPending
    /\ effectDue' = (<<map', projection', zoom', boatPosition', cog', sog'>>
                        # <<map, projection, zoom, boatPosition, cog, sog>>)
    /\ UNCHANGED <<mapZoom, cogFailed, cogRun, probeVars, appVars, barbVars>>

\* The user zooms the map.
MapZoomChanges ==
    /\ map # "null" /\ ~cogFailed
    /\ \E z \in MapZooms \ {mapZoom} : mapZoom' = z
    /\ UNCHANGED <<map, boatPosition, cog, sog, zoom, projection,
                   pixelDistance, cogPending, effectDue, cogFailed, cogRun,
                   probeVars, appVars, barbVars>>

NextCog ==
    \/ CogEffect
    \/ CogRender
    \/ MapZoomChanges

SpecCog == InitCog /\ [][NextCog]_vars

----------------------------------------------------------------------------
(* Properties of the state merge and the App component (under Spec) *)

RECURSIVE Flatten(_)
\* The batches of one render, as one sequence of updates in arrival order
Flatten(queue) ==
    IF queue = << >> THEN << >> ELSE Head(queue) \o Flatten(Tail(queue))

KeysOf(updates) == { updates[i].key : i \in DOMAIN updates }

\* The last update for key k in a sequence that has one
LastFor(k, updates) ==
    LET last == CHOOSE i \in DOMAIN updates :
                    /\ updates[i].key = k
                    /\ \A j \in DOMAIN updates : updates[j].key = k => j <= i
    IN  updates[last]

\* C1: after a render that committed, each snapshot is the overlay of the
\* snapshot before the render with the batches of the render: a key of a
\* batch holds an entry of the batch (raw: the update, formatted: its
\* formatted record), every other key is still present with its previous
\* record, and no key is lost or added (an empty batch changes nothing).
C1_Overlay ==
    ~crashed =>
        LET flat == Flatten(lastV)
        IN  /\ DOMAIN vesselState = DOMAIN prevVessel \cup KeysOf(flat)
            /\ DOMAIN formattedState = DOMAIN prevFormatted \cup KeysOf(flat)
            /\ \A k \in KeysOf(flat) :
                \E i \in DOMAIN flat :
                    /\ flat[i].key = k
                    /\ vesselState[k] = flat[i]
                    /\ formattedState[k] = formatUpdate(flat[i]).rec
            /\ \A k \in DOMAIN prevVessel \ KeysOf(flat) :
                    vesselState[k] = prevVessel[k]
            /\ \A k \in DOMAIN prevFormatted \ KeysOf(flat) :
                    formattedState[k] = prevFormatted[k]

C13_HandlerOncePerClient ==
    [][ /\ handlers' # handlers =>
            /\ handlers = 0 /\ handlers' = 1
            /\ client # "null"
            /\ effects # << >> /\ Head(effects) = "message"
        /\ (effects = << >> /\ effects' # << >>) => client' # client
        /\ (load' # load /\ handlers >= 1) =>
            \E b \in Batches(MaxLoad) :
                /\ vQueue' = Append(vQueue, b)
                /\ fQueue' = Append(fQueue, b)
        /\ (vQueue' # vQueue /\ load' = load) =>
            /\ vQueue' = << >> /\ fQueue' = << >>
            /\ lastV' = vQueue /\ lastF' = fQueue
      ]_vars

\* After a render that merged a message and left client as it was, one
\* handler is installed and the next message is queued once.
C13_Witness ==
    /\ ~crashed
    /\ handlers = 1
    /\ client = "client"
    /\ lastV # << >>
    /\ Len(vQueue) = 1
    /\ Len(fQueue) = 1

\* C14: topics are subscribed only for the plug-ins "signalk-mqtt-gw" and
\* "signalk-mqtt-push".  For any other value, the absent plugIn of the
\* shipped configuration among them, once the connection effect has run
\* the connection is open and stays open, the effect has thrown, no topic is
\* subscribed, no cleanup was returned, and no message has been delivered,
\* queued or merged.
C14_UnknownPlugInThrows ==
    /\ ShippedPlugIn \notin {"signalk-mqtt-gw", "signalk-mqtt-push"}
    /\ topics # {} => plugIn \in {"signalk-mqtt-gw", "signalk-mqtt-push"}
    /\ (/\ plugIn \notin {"signalk-mqtt-gw", "signalk-mqtt-push"}
        /\ conn # "none") =>
            /\ conn = "open"
            /\ crashed
            /\ topics = {}
            /\ ~cleanup
            /\ load = 0
            /\ vQueue = << >> /\ fQueue = << >>
            /\ lastV = << >> /\ lastF = << >>
            /\ vesselState = EmptySnapshot
            /\ formattedState = EmptySnapshot

\* With the shipped configuration, both effects of the first commit have
\* run: the connection is open and the effect has thrown.
C14_Witness ==
    /\ plugIn = ShippedPlugIn
    /\ conn = "open"
    /\ crashed
    /\ effects = << >>

\* A batch was merged over a snapshot holding a key of the batch and a key
\* that is not in the batch.
C1_Witness ==
    /\ ~crashed
    /\ Flatten(lastV) # << >>
    /\ DOMAIN prevVessel \ KeysOf(Flatten(lastV)) # {}
    /\ DOMAIN prevVessel \cap KeysOf(Flatten(lastV)) # {}

\* C2: when the updates of a render hold several updates for one key, the
\* committed raw snapshot holds the last of them in arrival order, and the
\* formatted snapshot holds the formatted record of that last update.
C2_LastInBatchWins ==
    ~crashed =>
        \A k \in KeysOf(Flatten(lastV)) :
            /\ vesselState[k] = LastFor(k, Flatten(lastV))
            /\ formattedState[k] =
                    formatUpdate(LastFor(k, Flatten(lastV))).rec

\* One batch with two different updates for the same key was merged.
C2_Witness ==
    /\ ~crashed
    /\ \E b \in DOMAIN lastV :
        /\ Len(lastV[b]) = 2
        /\ lastV[b][1].key = lastV[b][2].key
        /\ lastV[b][1] # lastV[b][2]
        /\ vesselState[lastV[b][2].key] = lastV[b][2]

\* C3: in every state a reader can observe (the tree is mounted), the raw
\* and the formatted snapshot were merged from the same batches: the
\* pending and the last applied batches of the two hooks are equal, every
\* key of the applied batches is in both snapshots, and the two snapshots
\* have the same keys.
C3_SameBatch ==
    ~crashed =>
        /\ vQueue = fQueue
        /\ lastV = lastF
        /\ KeysOf(Flatten(lastV)) \subseteq DOMAIN vesselState
        /\ KeysOf(Flatten(lastF)) \subseteq DOMAIN formattedState
        /\ DOMAIN vesselState = DOMAIN formattedState

\* A non-empty batch was merged into both snapshots.
C3_Witness ==
    /\ ~crashed
    /\ Flatten(lastV) # << >>
    /\ Flatten(lastF) # << >>
    /\ DOMAIN formattedState # {}

\* C4: every key of the formatted snapshot has been a key of the raw
\* snapshot.
C4_FormattedKeysWereRaw == DOMAIN formattedState \subseteq everRaw

\* Two keys have been merged into the formatted snapshot.
C4_Witness == Cardinality(DOMAIN formattedState) >= 2

\* C5: a formatting failure for one update of a batch is local: the tree
\* stays mounted, the updates of the batch that format without failure are
\* in both snapshots, and the keys known before are still there.
C5_FailureIsLocal ==
    /\ ~(crashed /\ lastF # << >>)
    /\ \A i \in DOMAIN Flatten(lastF) :
        formatUpdate(Flatten(lastF)[i]).err = "none" =>
            /\ Flatten(lastF)[i].key \in DOMAIN vesselState
            /\ Flatten(lastF)[i].key \in DOMAIN formattedState
    /\ DOMAIN prevFormatted \subseteq DOMAIN formattedState

\* The paths known to the system: the table order, the source units, the
\* labels.
KnownPaths ==
    { tableOrder[i] : i \in DOMAIN tableOrder }
        \cup DOMAIN signalKUnits \cup DOMAIN pathLabels

\* C9: whatever plug-in is configured, every known path has a quantity
\* group in unitGroup.
C9_EveryPathHasGroup ==
    plugIn \in PlugIns => \A p \in KnownPaths : p \in DOMAIN unitGroup

----------------------------------------------------------------------------
(* Properties of the formatter (under SpecFormat) *)

AbsentValue(v) == v.t \in {"null", "undefined"}

\* The outcomes formatUpdate has for an absent value at a known path
AbsentValueOutcomes ==
    { formatUpdate(u).err :
        u \in { w \in ProbeInputs :
                  AbsentValue(w.value) /\ w.key \in DOMAIN unitGroup } }

\* C6: an update at a path without metadata is stored by the raw merge
\* under its key, and formatUpdate signals a failure for it that is not an
\* outcome it has for an absent value.
C6_UnknownPathSignalled ==
    (probePc = "done" /\ probeIn.key \notin DOMAIN unitGroup) =>
        /\ probeIn.key \in DOMAIN VesselMergeUpdates(EmptySnapshot, <<probeIn>>)
        /\ VesselMergeUpdates(EmptySnapshot, <<probeIn>>)[probeIn.key]
                = probeIn
        /\ probeOut.err # "none"
        /\ probeOut.err \notin AbsentValueOutcomes

\* C7: an update with a null or undefined value formats without failure
\* and leaves no record for its path in the formatted snapshot.
C7_AbsentValueNotAnError ==
    (probePc = "done" /\ AbsentValue(probeIn.value)) =>
        /\ probeOut.err = "none"
        /\ FormattedMergeUpdates(EmptySnapshot, <<probeIn>>).err = "none"
        /\ probeIn.key \notin
            DOMAIN FormattedMergeUpdates(EmptySnapshot, <<probeIn>>).state

\* D° M.M' and hemisphere as the degrees+minutes rule states them, for n
\* hundredths of a degree: D = floor(|v|), M = (|v| - D) * 60.
DegreesMinutes(n, positive, negative) ==
    LET d == Abs(n) \div 100
        m == (Abs(n) - d * 100) * 60
    IN  ToString(d) \o "° " \o ToFixed(Num(m), 1) \o "'"
            \o (IF n >= 0 THEN positive ELSE negative)

\* C8: a latitude or longitude in decimal degrees renders as D° M.M' and
\* the hemisphere letter, with D = floor(|v|) and M = (|v| - D) * 60.
C8_DegreesMinutes ==
    (/\ probePc = "done"
     /\ probeIn.value.t = "num"
     /\ probeIn.unit = "dd.dd"
     /\ probeIn.key \in {"navigation.position.latitude",
                         "navigation.position.longitude"}) =>
        /\ probeOut.err = "none"
        /\ probeOut.rec.value =
            IF probeIn.key = "navigation.position.latitude"
            THEN DegreesMinutes(probeIn.value.n, "N", "S")
            ELSE DegreesMinutes(probeIn.value.n, "E", "W")

NonCoordinatePaths ==
    { p \in DOMAIN unitGroup :
        unitGroup[p] \notin {"group_latitude", "group_longitude"} }

\* C10: for a non-coordinate path of unitGroup, formatValue hands the value
\* on unconverted when the source unit is the display unit of the group,
\* applies the conversionDict entry when there is one, and with the unit
\* signalKUnits declares for the path one of the two is the case: the
\* conversion step does not throw, and a number is formatted.
C10_ConvertIfNecessary ==
    (probePc = "done" /\ probeIn.key \in NonCoordinatePaths) =>
        LET sel == unitSelection[unitGroup[probeIn.key]]
            unit == probeIn.unit
        IN  /\ unit = sel =>
                /\ probeConv.err = "none"
                /\ probeConv.v = probeIn.value
            /\ (/\ unit # sel
                /\ unit \in DOMAIN conversionDict
                /\ sel \in conversionDict[unit]
                /\ probeIn.value.t = "num") =>
                    /\ probeConv.err = "none"
                    /\ probeConv.v =
                        Num(ApplyConversion(unit, sel, probeIn.value.n))
            /\ (unit # sel /\ ~(/\ unit \in DOMAIN conversionDict
                                /\ sel \in conversionDict[unit])) =>
                    probeConv.site = "conversion"
            /\ unit = signalKUnits[probeIn.key] =>
                /\ probeConv.err = "none"
                /\ probeIn.value.t = "num" => probeOut.err = "none"

\* C12: when formatLatLon is called with a source unit other than "dd.dd",
\* a diagnostic is written, nothing is thrown, and the value of the record
\* is not the coordinate string the same number gives as decimal degrees.
C12_WrongUnitDegrades ==
    (/\ probePc = "done"
     /\ Lookup(unitGroup, probeIn.key)
            \in {"group_latitude", "group_longitude"}
     /\ probeIn.unit # "dd.dd"
     /\ probeIn.value.t = "num") =>
        /\ probeDiag # {}
        /\ probeOut.err = "none"
        /\ probeOut.rec.value #
                formatLatLon(probeIn.value, Lookup(unitGroup, probeIn.key),
                             "dd.dd").s

\* A speed in m/s has been converted to knots, and a depth in meters has
\* the declared unit that is its display unit.
C10_Witness ==
    /\ probePc = "done"
    /\ probeIn.key = "navigation.speedOverGround"
    /\ probeIn.unit = "meter_per_second"
    /\ probeIn.value = Num(500)
    /\ probeOut.err = "none"
    /\ probeOut.rec.value = "9.7 kn"

----------------------------------------------------------------------------
(* Properties of the wind barb (under SpecBarb) *)

\* The speed in knots as a real number: exact for a speed of the model's
\* range, and still the huge number for a huge speed
ExactKnots(speed) ==
    IF speed.t = "big" THEN Huge
    ELSE Num(ApplyConversion("meter_per_second", "knot", speed.n))

Pennants(kn) == kn \div Knots(50)

FullBarbs(kn) == (kn % Knots(50)) \div Knots(10)

HalfBarbs(kn) == IF kn % Knots(10) >= Knots(5) THEN 1 ELSE 0

\* The part drawn at place i of a barb of p pennants and b full barbs
PartAt(i, p, b, y) ==
    IF i <= 1 + p THEN [shape |-> "pennant", y |-> y, length |-> FULLBARB]
    ELSE IF i <= 1 + p + b
    THEN [shape |-> "barb", y |-> y, length |-> FULLBARB]
    ELSE [shape |-> "barb", y |-> y, length |-> FULLBARB \div 2]

\* parts is the shaft, then p pennants, then b full barbs, then h half
\* barbs, each one SPACE further down the shaft than the one before, the
\* first at the top of the shaft or below it
BarbIs(parts, p, b, h) ==
    /\ Len(parts) = 1 + p + b + h
    /\ parts[1] = Shaft
    /\ \A i \in 2..Len(parts) :
        /\ parts[i] = PartAt(i, p, b, parts[i].y)
        /\ parts[i].y >= ShaftTop
        /\ i > 2 => parts[i].y = parts[i - 1].y + SPACE

RECURSIVE Worth(_)
\* The speed the loops have taken off for the parts drawn, in hundredths of
\* a knot: 50 knots a pennant, 10 knots a full barb
Worth(parts) ==
    IF parts = << >> THEN 0
    ELSE Worth(Tail(parts))
         + (IF Head(parts).shape = "pennant" THEN Knots(50)
            ELSE IF Head(parts).shape = "barb"
                    /\ Head(parts).length = FULLBARB
            THEN Knots(10) ELSE 0)

\* remaining is the real number kn less the worth of the parts drawn, and
\* is not negative; a huge kn less 50 or more is another number than kn
Accounted(parts, remaining, kn) ==
    IF kn.t = "big" THEN remaining = kn /\ Worth(parts) = 0
    ELSE /\ remaining.t = "num"
         /\ remaining.n = kn.n - Worth(parts)
         /\ remaining.n >= 0

\* In both loops every part drawn has taken its speed off the remaining
\* speed, so the loops end after Pennants(kn) and FullBarbs(kn) turns, and
\* the barb returned is that of kn.
BarbOf(kn) ==
    /\ barbPc \in {"pennants", "barbs", "done"} =>
            Accounted(svgParts, remainingSpeed, kn)
    /\ barbPc = "done" =>
            /\ kn.t = "num"
            /\ BarbIs(svgParts, Pennants(kn.n), FullBarbs(kn.n),
                      HalfBarbs(kn.n))

----------------------------------------------------------------------------
(* Properties of the course-over-ground line (under SpecCog) *)

\* C16: the last run of the effect of COGLine has handed a pixel distance
\* to setPixelDistance only if the map, the boat position, cog, sog and zoom
\* were all known in it, and a run in which one of them was not known has
\* not thrown and has left the pixel distance as it was.
C16_PixelDistanceGuarded ==
    cogRun.ran =>
        /\ cogRun.stored => cogRun.known
        /\ ~cogRun.known => (~cogRun.failed /\ ~cogRun.stored)

====
